---------------------------- MODULE Spec2Model ----------------------------
(***************************************************************************)
(* The free-text slot of the search query builder                          *)
(* (static/app/components/searchQueryBuilder/tokens/freeText.tsx).         *)
(*                                                                         *)
(* Texts are sequences of one-character strings.  The component's React    *)
(* state (inputValue, selectionIndex, isOpen, prevValue), its props (the   *)
(* token, the item key, the list state) and the commits it dispatches are  *)
(* the state; every handler of SearchQueryBuilderInputInternal is one      *)
(* action.                                                                 *)
(***************************************************************************)
EXTENDS Integers, Sequences, FiniteSets, TLC

\* ------------------------------------------------------------- bounds

\* The session specification (Spec): the longest text the input may hold,
\* the longest committed text an edit of the stream leaves in the slot.
MaxLen == 2
MaxSlotLen == 1

\* The typing specification (SpecTyping): the longest text typed.
TypingMaxLen == 4

\* The paste specification (SpecPaste): the longest clipboard payload, and
\* the longest text typed.
PasteMaxClipLen == 4
PasteMaxLen == 2

\* The focus specification (SpecFocus): the most structured tokens of the
\* stream, and the longest text typed.
FocusMaxStruct == 3
FocusMaxLen == 2

\* The core specification (SpecCore): the longest text given to the word
\* functions, the most parameters of a function, the most sections of the
\* suggestion list and the most keys a section lists.
ElsewhereMaxLen == 2
LeaveMaxLen == 3
CoreMaxLen == 3
CoreMaxParams == 2
CoreMaxSections == 2
CoreMaxChildren == 2

\* ------------------------------------------------------------- texts

\* The characters a user types in the session.
Chars == {"a", " ", ":", "("}
\* The characters of a committed free-text token.
SlotChars == {"a", " "}
\* The characters of a clipboard payload.
ClipChars == {"a", " ", "\n"}
\* What String.prototype.trim removes.
Whitespace == {" ", "\n"}

TextsOver(S, n) == UNION {[1..k -> S] : k \in 0..n}

\* value.slice(from, to) with 0-based from (inclusive) and to (exclusive).
Slice(s, from, to) == SubSeq(s, from + 1, to)

RECURSIVE TrimStart(_)
TrimStart(s) ==
  IF s # <<>> /\ Head(s) \in Whitespace THEN TrimStart(Tail(s)) ELSE s

RECURSIVE TrimEnd(_)
TrimEnd(s) ==
  IF s # <<>> /\ s[Len(s)] \in Whitespace
  THEN TrimEnd(SubSeq(s, 1, Len(s) - 1))
  ELSE s

\* String.prototype.trim
Trim(s) == TrimEnd(TrimStart(s))

\* String.prototype.split(sep): the pieces between the occurrences of sep;
\* the empty text splits into one empty piece.
RECURSIVE SplitOn(_, _, _)
SplitOn(s, sep, cur) ==
  IF s = <<>> THEN <<cur>>
  ELSE IF Head(s) = sep THEN <<cur>> \o SplitOn(Tail(s), sep, <<>>)
  ELSE SplitOn(Tail(s), sep, Append(cur, Head(s)))

Split(s, sep) == SplitOn(s, sep, <<>>)

\* String.prototype.replace(pattern, replacement) with a string pattern of
\* one character: only the FIRST occurrence is replaced (here: removed).
RECURSIVE RemoveFirst(_, _)
RemoveFirst(s, c) ==
  IF s = <<>> THEN <<>>
  ELSE IF Head(s) = c THEN Tail(s)
  ELSE <<Head(s)>> \o RemoveFirst(Tail(s), c)

\* Array.prototype.join(sep) over texts.
RECURSIVE Join(_, _)
Join(parts, sep) ==
  IF parts = <<>> THEN <<>>
  ELSE IF Len(parts) = 1 THEN parts[1]
  ELSE parts[1] \o sep \o Join(Tail(parts), sep)


\* ------------------------------------------------- field definitions

\* Token kinds (enum Token of searchSyntax/parser).
FREE_TEXT == "freeText"
FILTER == "filter"
L_PAREN == "lParen"
R_PAREN == "rParen"

\* A parameter that declares no defaultValue.
NoDefault == <<"undefined">>

\* getFieldDefinition(key) === null: every optional access yields undefined.
NullDefinition ==
  [kind |-> "none", valueType |-> "none", hasParameters |-> FALSE,
   parameters |-> <<>>]

\* The key of the example in the comment of replaceFocusedWordWithFilter.
BrowserName == <<"b", "r", "o", "w", "s", "e", "r", ".", "n", "a", "m", "e">>

\* The key catalog's field definitions: two string fields, a numeric
\* function with one defaulted and one undefaulted parameter, and nothing
\* else.
getFieldDefinition(key) ==
  IF key = <<"a">> \/ key = BrowserName
  THEN [kind |-> "field", valueType |-> "string", hasParameters |-> FALSE,
        parameters |-> <<>>]
  ELSE IF key = <<"a", "a">>
  THEN [kind |-> "function", valueType |-> "number", hasParameters |-> TRUE,
        parameters |-> << [name |-> <<"p">>, defaultValue |-> <<"a">>],
                          [name |-> <<"q">>, defaultValue |-> NoDefault] >>]
  ELSE NullDefinition

\* The keys the suggestion list offers (filterKeys): two catalogued keys and
\* one tag without a field definition.
FilterKeys == {<<"a">>, <<"a", "a">>, <<"a", "a", "a">>}

\* getDefaultFilterValue({key, fieldDefinition}): the default value literal,
\* by value type.
getDefaultFilterValue(key, fieldDefinition) ==
  IF fieldDefinition.valueType \in {"integer", "number", "duration", "percentage"}
  THEN <<"1">>
  ELSE <<>>

\* parameters.filter(param => defined(param.defaultValue)).map(param => param.defaultValue)
RECURSIVE DefinedDefaults(_)
DefinedDefaults(params) ==
  IF params = <<>> THEN <<>>
  ELSE IF Head(params).defaultValue # NoDefault
       THEN <<Head(params).defaultValue>> \o DefinedDefaults(Tail(params))
       ELSE DefinedDefaults(Tail(params))

\* getInitialFilterKeyText joining an entry for every parameter, empty for
\* one without a default.
getInitialFilterKeyTextEvery(key, fieldDefinition) ==
  IF fieldDefinition.kind = "function"
  THEN IF fieldDefinition.hasParameters
       THEN key \o <<"(">>
                \o Join([i \in 1..Len(fieldDefinition.parameters) |->
                           IF fieldDefinition.parameters[i].defaultValue = NoDefault
                           THEN <<>>
                           ELSE fieldDefinition.parameters[i].defaultValue],
                        <<",">>)
                \o <<")">>
       ELSE key \o <<"(", ")">>
  ELSE key

getInitialFilterKeyText(key, fieldDefinition) ==
  IF fieldDefinition.kind = "function"
  THEN IF fieldDefinition.hasParameters
       THEN key \o <<"(">> \o Join(DefinedDefaults(fieldDefinition.parameters), <<",">>)
                \o <<")">>
       ELSE key \o <<"(", ")">>
  ELSE key

\* getInitialFilterText without the comparison prefix.
getInitialFilterTextPlain(key, fieldDefinition) ==
  getInitialFilterKeyText(key, fieldDefinition) \o <<":">>
    \o getDefaultFilterValue(key, fieldDefinition)

getInitialFilterText(key, fieldDefinition) ==
  LET defaultValue == getDefaultFilterValue(key, fieldDefinition)
      keyText == getInitialFilterKeyText(key, fieldDefinition)
  IN  IF fieldDefinition.valueType \in {"integer", "number", "duration", "percentage"}
      THEN keyText \o <<":", ">">> \o defaultValue
      ELSE keyText \o <<":">> \o defaultValue

\* ------------------------------------------------------ word location

\* The loop of getWordAtCursorPosition over the words still to visit, with
\* characterCount the count accumulated so far.
RECURSIVE WordLoop(_, _, _, _)
WordLoop(words, characterCount, cursorPosition, value) ==
  IF words = <<>> THEN value
  ELSE LET count == characterCount + Len(Head(words)) + 1
       IN  IF count >= cursorPosition
           THEN Head(words)
           ELSE WordLoop(Tail(words), count, cursorPosition, value)

\* getWordAtCursorPosition returning the first word, wherever the cursor is.
getFirstWord(value, cursorPosition) ==
  WordLoop(Split(value, " "), 0, 0, value)

getWordAtCursorPosition(value, cursorPosition) ==
  WordLoop(Split(value, " "), 0, cursorPosition, value)

\* The loop of replaceFocusedWordWithFilter.
RECURSIVE ReplaceLoop(_, _, _, _, _)
ReplaceLoop(words, characterCount, cursorPosition, value, key) ==
  IF words = <<>> THEN value
  ELSE LET word == Head(words)
           count == characterCount + Len(word) + 1
       IN  IF count >= cursorPosition
           THEN Trim( Trim(Slice(value, 0, count - Len(word) - 1))
                      \o <<" ">> \o getInitialFilterText(key, getFieldDefinition(key))
                      \o <<" ">> \o Trim(Slice(value, count, Len(value))) )
           ELSE ReplaceLoop(Tail(words), count, cursorPosition, value, key)

\* replaceFocusedWordWithFilter replacing the first word, wherever the
\* cursor is.
replaceFirstWordWithFilter(value, cursorPosition, key) ==
  ReplaceLoop(Split(value, " "), 0, 0, value, key)

replaceFocusedWordWithFilter(value, cursorPosition, key) ==
  ReplaceLoop(Split(value, " "), 0, cursorPosition, value, key)

\* ------------------------------------------------------------ parser

\* The quote onInputChange appends to the text it parses.
Quote == "\""

\* Position of the first ":" of a word, 0 when it has none.
RECURSIVE ColonAt(_, _)
ColonAt(word, i) ==
  IF i > Len(word) THEN 0
  ELSE IF word[i] = ":" THEN i
  ELSE ColonAt(word, i + 1)

\* One word of the query: a filter when a key precedes its first ":", free
\* text otherwise; nothing for an empty word.
WordTokens(word) ==
  IF word = <<>> THEN <<>>
  ELSE IF ColonAt(word, 1) > 1
  THEN << [type |-> FILTER, key |-> SubSeq(word, 1, ColonAt(word, 1) - 1)] >>
  ELSE << [type |-> FREE_TEXT, key |-> <<>>] >>

\* parseSearch on a text that parses: parens are tokens of their own, spaces
\* separate words.
RECURSIVE Tokenize(_, _)
Tokenize(s, cur) ==
  IF s = <<>> THEN WordTokens(cur)
  ELSE IF Head(s) = "("
  THEN WordTokens(cur) \o << [type |-> L_PAREN, key |-> <<>>] >> \o Tokenize(Tail(s), <<>>)
  ELSE IF Head(s) = ")"
  THEN WordTokens(cur) \o << [type |-> R_PAREN, key |-> <<>>] >> \o Tokenize(Tail(s), <<>>)
  ELSE IF Head(s) = " "
  THEN WordTokens(cur) \o Tokenize(Tail(s), <<>>)
  ELSE Tokenize(Tail(s), Append(cur, Head(s)))

\* parseSearch(text): the token list, or null (ok = FALSE) when the parser
\* gives up on the text; the parser may give up on any text.
parseSearch(text) ==
  { [ok |-> TRUE, tokens |-> Tokenize(text, <<>>)],
    [ok |-> FALSE, tokens |-> <<>>] }

\* ---------------------------------------------------- classification

\* HasParen taking a text the parser gave up on for a paren.
HasParenOrNoParse(parsedText) ==
  \/ ~parsedText.ok
  \/ \E i \in 1..Len(parsedText.tokens) :
        parsedText.tokens[i].type \in {L_PAREN, R_PAREN}

HasParen(parsedText) ==
  /\ parsedText.ok
  /\ \E i \in 1..Len(parsedText.tokens) :
        parsedText.tokens[i].type \in {L_PAREN, R_PAREN}

HasFilterFor(parsedText, filterValue) ==
  /\ parsedText.ok
  /\ \E i \in 1..Len(parsedText.tokens) :
        /\ parsedText.tokens[i].type = FILTER
        /\ parsedText.tokens[i].key = filterValue

\* Classify with the filter test first.
ClassifyFilterFirst(parsedText, filterValue) ==
  IF HasFilterFor(parsedText, filterValue) THEN "FORMS_FILTER"
  ELSE IF HasParen(parsedText) THEN "FORMS_PAREN"
  ELSE "FREE_TEXT"

\* The decision of onInputChange: the paren test comes first.
Classify(parsedText, filterValue) ==
  IF HasParen(parsedText) THEN "FORMS_PAREN"
  ELSE IF HasFilterFor(parsedText, filterValue) THEN "FORMS_FILTER"
  ELSE "FREE_TEXT"

\* ------------------------------------------------------------- state

VARIABLES
  inputValue,      \* useState: the text the input shows (editText)
  selectionIndex,  \* useState: the cursor offset last read (cursorOffset)
  isOpen,          \* useState: whether the suggestion list is open
  prevValue,       \* useState: the trimmed token text of the previous render
  tokenText,       \* props: token.text, the slot's committed text
  itemKey,         \* props: item.key, the slot's key in the list
  itemKeys,        \* props: state.collection.getKeys(), the committed stream
  focusedKey,      \* props: state.selectionManager.focusedKey
  pending,         \* the commits dispatched and not yet applied
  last             \* the last event handled and its input

vars ==
  << inputValue, selectionIndex, isOpen, prevValue, tokenText, itemKey,
     itemKeys, focusedKey, pending, last >>

\* selectionStart when the input reports none (inputRef.current is null).
NoSelection == -1

\* state.selectionManager.focusedKey === null
NoKey == [type |-> "none", index |-> 0]

\* A commit without focusOverride.
NoFocus == [itemKey |-> NoKey, part |-> "none"]

\* token.text.trim()
trimmedTokenValue == Trim(tokenText)

\* The value the parser gives a free-text token of text: what is between the
\* quotes when the text is quoted, the text itself otherwise.
Unquoted(text) ==
  LET t == Trim(text)
  IN  IF Len(t) >= 2 /\ t[1] = Quote /\ t[Len(t)] = Quote
      THEN SubSeq(t, 2, Len(t) - 1)
      ELSE text

\* token.value
tokenValue == Unquoted(tokenText)

\* getWordAtCursorPosition(inputValue, selectionIndex)
filterValue == getWordAtCursorPosition(inputValue, selectionIndex)

\* ------------------------------------------------------------ stream

StructTypes == {FILTER, L_PAREN}

\* makeTokenKey: `${token.type}:${index among the tokens of its type}`.
KeysOf(types) ==
  [i \in 1..Len(types) |->
     [type |-> types[i],
      index |-> Cardinality({j \in 1..(i - 1) : types[j] = types[i]})]]

\* A committed stream: a free-text token before, between and after its
\* structured tokens.
Interleave(structs) ==
  [i \in 1..(2 * Len(structs) + 1) |->
     IF i % 2 = 1 THEN FREE_TEXT ELSE structs[i \div 2]]

StreamsUpTo(n) == {KeysOf(Interleave(st)) : st \in TextsOver(StructTypes, n)}

KeySet(keys) == {keys[i] : i \in 1..Len(keys)}

\* Array.prototype.indexOf, 0-based, -1 when absent.
IndexOf(keys, key) ==
  IF key \in KeySet(keys)
  THEN (CHOOSE i \in 1..Len(keys) : keys[i] = key) - 1
  ELSE -1

\* Array.prototype.slice(0, end): a negative end counts from the end.
SliceTo(keys, end) ==
  IF end >= 0 THEN SubSeq(keys, 1, end) ELSE SubSeq(keys, 1, Len(keys) + end)

\* state.collection.getKeyBefore(key), NoKey when there is none.
getKeyBefore(key) ==
  IF IndexOf(itemKeys, key) >= 1 THEN itemKeys[IndexOf(itemKeys, key)] ELSE NoKey

\* state.collection.getKeyAfter(key), NoKey when there is none.
getKeyAfter(key) ==
  IF IndexOf(itemKeys, key) >= 0 /\ IndexOf(itemKeys, key) + 2 <= Len(itemKeys)
  THEN itemKeys[IndexOf(itemKeys, key) + 2]
  ELSE NoKey

\* ------------------------------------------------------- focus router

\* countPreviousItemsOfType counting over the whole collection.
countAllItemsOfType(type) ==
  Cardinality({i \in 1..Len(itemKeys) : itemKeys[i].type = type})

countPreviousItemsOfType(type) ==
  LET currentIndex == IndexOf(itemKeys, focusedKey)
      previous == SliceTo(itemKeys, currentIndex)
  IN  Cardinality({i \in 1..Len(previous) : previous[i].type = type})

calculateNextFocusForFilter ==
  [itemKey |-> [type |-> FILTER, index |-> countPreviousItemsOfType(FILTER)],
   part |-> "value"]

\* calculateNextFocusForParen targeting the slot's own ordinal.
calculateNextFocusForParenSame(item) ==
  [itemKey |-> [type |-> FREE_TEXT, index |-> item.index], part |-> "none"]

calculateNextFocusForParen(item) ==
  [itemKey |-> [type |-> FREE_TEXT, index |-> item.index + 1], part |-> "none"]

\* ------------------------------------------------------------ events

\* What the last event was: the handler, the branch it took, and its input
\* (the raw text and the selection the input element reported).  A paste
\* records in word the text the input held.
Event(op, cls, raw, sel) ==
  [op |-> op, cls |-> cls, raw |-> raw, sel |-> sel, word |-> <<>>, ok |-> TRUE]

\* A keystroke handled: also the word at the cursor it was compared with and
\* whether the parser returned a result.
InputEvent(cls, raw, sel, word, ok) ==
  [op |-> "input", cls |-> cls, raw |-> raw, sel |-> sel, word |-> word, ok |-> ok]

\* inputRef.current?.selectionStart ?? 0
SelectionStart(sel) == IF sel = NoSelection THEN 0 ELSE sel

\* The selections the input element can report for a text.
Selections(text) == (0..Len(text)) \cup {NoSelection}

\* One keystroke on a text: a character typed at a position (the cursor ends
\* after it) or the character before a position deleted (the cursor ends in
\* its place).  Pairs <<e.target.value, e.target.selectionStart>>.
Keystrokes(text, chars, maxLen) ==
  { << SubSeq(text, 1, p) \o <<c>> \o SubSeq(text, p + 1, Len(text)), p + 1 >> :
       p \in {q \in 0..Len(text) : Len(text) < maxLen}, c \in chars }
  \cup
  { << SubSeq(text, 1, p - 1) \o SubSeq(text, p + 1, Len(text)), p - 1 >> :
       p \in 1..Len(text) }

\* dispatch(action): the commit joins those the dispatcher has yet to apply.
Dispatch(type, text, focusOverride) ==
  pending' = Append(pending, [type |-> type, text |-> text,
                              focusOverride |-> focusOverride])

\* updateSelectionIndex
updateSelectionIndex(sel) == selectionIndex' = SelectionStart(sel)

\* resetInputValue leaving the text as it is.
resetInputValueKeepsText(sel) ==
  /\ UNCHANGED inputValue
  /\ updateSelectionIndex(sel)

\* resetInputValue
resetInputValue(sel) ==
  /\ inputValue' = trimmedTokenValue
  /\ updateSelectionIndex(sel)

\* The slot is the list's focused item: its input receives the user's events.
Focused == focusedKey = itemKey

\* The dispatcher has applied every commit: the next event may be handled.
Ready == pending = <<>>

\* onInputChange, a keystroke that forms a paren: commit the raw text.
CommitParen(raw, sel) ==
  /\ Dispatch("UPDATE_FREE_TEXT", raw, calculateNextFocusForParen(itemKey))
  /\ resetInputValue(sel)

\* CommitFilter replacing the first word of the text, wherever the cursor
\* was.
CommitFilterFirstWord(sel) ==
  /\ Dispatch("UPDATE_FREE_TEXT",
              replaceFocusedWordWithFilter(inputValue, 0, filterValue),
              calculateNextFocusForFilter)
  /\ resetInputValue(sel)

\* onInputChange, a keystroke that forms a filter on the current word:
\* commit the text with the word replaced by the filter.
CommitFilter(sel) ==
  /\ Dispatch("UPDATE_FREE_TEXT",
              replaceFocusedWordWithFilter(inputValue, selectionIndex, filterValue),
              calculateNextFocusForFilter)
  /\ resetInputValue(sel)

\* AcceptFreeText keeping the raw text trimmed.
AcceptFreeTextTrimmed(raw, sel) ==
  /\ inputValue' = Trim(raw)
  /\ selectionIndex' = SelectionStart(sel)
  /\ UNCHANGED pending

\* onInputChange, any other keystroke: keep the raw text and its cursor.
AcceptFreeText(raw, sel) ==
  /\ inputValue' = raw
  /\ selectionIndex' = SelectionStart(sel)
  /\ UNCHANGED pending

\* onInputChange, for the keystrokes of universe U.
OnInputChange(U) ==
  /\ Ready /\ Focused
  /\ \E ks \in Keystrokes(inputValue, U.chars, U.maxLen) :
     \E sel \in {ks[2], NoSelection} :
     \E parsedText \in parseSearch(Append(ks[1], Quote)) :
       LET raw == ks[1]
           cls == Classify(parsedText, filterValue)
       IN  /\ last' = InputEvent(cls, raw, sel, filterValue, parsedText.ok)
           /\ IF cls = "FORMS_PAREN" THEN CommitParen(raw, sel)
              ELSE IF cls = "FORMS_FILTER" THEN CommitFilter(sel)
              ELSE AcceptFreeText(raw, sel)
  /\ UNCHANGED << isOpen, prevValue, tokenText, itemKey, itemKeys, focusedKey >>

\* onOptionSelected
OnOptionSelected ==
  /\ Ready /\ Focused
  /\ \E value \in FilterKeys :
     \E sel \in Selections(inputValue) :
       /\ last' = Event("select", "-", value, sel)
       /\ Dispatch("UPDATE_FREE_TEXT",
                   replaceFocusedWordWithFilter(inputValue, selectionIndex, value),
                   calculateNextFocusForFilter)
       /\ resetInputValue(sel)
  /\ UNCHANGED << isOpen, prevValue, tokenText, itemKey, itemKeys, focusedKey >>

\* onCustomValueBlurred: the combobox hands over the text its input holds.
OnCustomValueBlurred ==
  /\ Ready
  /\ \E sel \in Selections(inputValue) :
       /\ last' = Event("blur", "-", inputValue, sel)
       /\ Dispatch("UPDATE_FREE_TEXT", inputValue, NoFocus)
       /\ resetInputValue(sel)
  /\ UNCHANGED << isOpen, prevValue, tokenText, itemKey, itemKeys, focusedKey >>

\* onCustomValueCommitted: as on blur; handleSearch runs the search and
\* changes nothing here.
OnCustomValueCommitted ==
  /\ Ready /\ Focused
  /\ \E sel \in Selections(inputValue) :
       /\ last' = Event("submit", "-", inputValue, sel)
       /\ Dispatch("UPDATE_FREE_TEXT", inputValue, NoFocus)
       /\ resetInputValue(sel)
  /\ UNCHANGED << isOpen, prevValue, tokenText, itemKey, itemKeys, focusedKey >>

\* onExit comparing the text with the token's value untrimmed.
OnExitUntrimmed ==
  /\ Ready /\ Focused
  /\ \E sel \in Selections(inputValue) :
       /\ last' = Event("exit", "-", inputValue, sel)
       /\ IF inputValue # tokenValue
          THEN /\ Dispatch("UPDATE_FREE_TEXT", inputValue, NoFocus)
               /\ resetInputValue(sel)
          ELSE UNCHANGED << pending, inputValue, selectionIndex >>
  /\ UNCHANGED << isOpen, prevValue, tokenText, itemKey, itemKeys, focusedKey >>

\* onExit
OnExit ==
  /\ Ready /\ Focused
  /\ \E sel \in Selections(inputValue) :
       /\ last' = Event("exit", "-", inputValue, sel)
       /\ IF inputValue # Trim(tokenValue)
          THEN /\ Dispatch("UPDATE_FREE_TEXT", inputValue, NoFocus)
               /\ resetInputValue(sel)
          ELSE UNCHANGED << pending, inputValue, selectionIndex >>
  /\ UNCHANGED << isOpen, prevValue, tokenText, itemKey, itemKeys, focusedKey >>

\* onPaste putting the payload in the text at the cursor.
OnPasteAtCursor(U) ==
  /\ Ready /\ Focused
  /\ \E clip \in U.clips :
     \E sel \in Selections(inputValue) :
       LET text == Trim(RemoveFirst(clip, "\n"))
           at == IF selectionIndex <= Len(inputValue) THEN selectionIndex
                 ELSE Len(inputValue)
       IN  /\ last' = [Event("paste", "-", clip, sel) EXCEPT !.word = inputValue]
           /\ Dispatch("REPLACE_TOKENS_WITH_TEXT",
                       SubSeq(inputValue, 1, at) \o text
                         \o SubSeq(inputValue, at + 1, Len(inputValue)),
                       NoFocus)
           /\ resetInputValue(sel)
  /\ UNCHANGED << isOpen, prevValue, tokenText, itemKey, itemKeys, focusedKey >>

\* onPaste, for the clipboard payloads of universe U.
OnPaste(U) ==
  /\ Ready /\ Focused
  /\ \E clip \in U.clips :
     \E sel \in Selections(inputValue) :
       LET text == Trim(RemoveFirst(clip, "\n"))
       IN  /\ last' = [Event("paste", "-", clip, sel) EXCEPT !.word = inputValue]
           /\ Dispatch("REPLACE_TOKENS_WITH_TEXT", text, NoFocus)
           /\ resetInputValue(sel)
  /\ UNCHANGED << isOpen, prevValue, tokenText, itemKey, itemKeys, focusedKey >>

\* onClick
OnClick ==
  /\ Ready /\ Focused
  /\ \E sel \in Selections(inputValue) :
       /\ last' = Event("click", "-", <<>>, sel)
       /\ updateSelectionIndex(sel)
  /\ UNCHANGED << inputValue, isOpen, prevValue, tokenText, itemKey, itemKeys,
                  focusedKey, pending >>

\* onKeyDown moving the focus whatever the end of the selection is.
OnKeyDownAnySelection ==
  /\ Ready /\ Focused
  /\ \E key \in {"Backspace", "Delete", "Other"} :
     \E selectionStart \in 0..Len(inputValue) :
     \E selectionEnd \in selectionStart..Len(inputValue) :
       /\ last' = [Event("keydown", key, <<>>, selectionStart)
                   EXCEPT !.ok = (selectionStart = selectionEnd)]
       /\ updateSelectionIndex(selectionStart)
       /\ IF /\ selectionStart = 0
             /\ key = "Backspace"
             /\ getKeyBefore(itemKey) # NoKey
          THEN focusedKey' = getKeyBefore(itemKey)
          ELSE IF /\ selectionStart = Len(inputValue)
                  /\ key = "Delete"
                  /\ getKeyAfter(itemKey) # NoKey
          THEN focusedKey' = getKeyAfter(itemKey)
          ELSE UNCHANGED focusedKey
  /\ UNCHANGED << inputValue, isOpen, prevValue, tokenText, itemKey, itemKeys,
                  pending >>

\* onKeyDown: the keys that change nothing here (ctrl+z, ctrl+a, any other)
\* are one key, "Other".  The event records in ok whether the selection was
\* empty.
OnKeyDown ==
  /\ Ready /\ Focused
  /\ \E key \in {"Backspace", "Delete", "Other"} :
     \E selectionStart \in 0..Len(inputValue) :
     \E selectionEnd \in selectionStart..Len(inputValue) :
       /\ last' = [Event("keydown", key, <<>>, selectionStart)
                   EXCEPT !.ok = (selectionStart = selectionEnd)]
       /\ updateSelectionIndex(selectionStart)
       /\ IF /\ selectionStart = 0 /\ selectionEnd = 0 /\ key = "Backspace"
             /\ getKeyBefore(itemKey) # NoKey
          THEN focusedKey' = getKeyBefore(itemKey)
          ELSE IF /\ selectionStart = Len(inputValue)
                  /\ selectionEnd = Len(inputValue)
                  /\ key = "Delete"
                  /\ getKeyAfter(itemKey) # NoKey
          THEN focusedKey' = getKeyAfter(itemKey)
          ELSE UNCHANGED focusedKey
  /\ UNCHANGED << inputValue, isOpen, prevValue, tokenText, itemKey, itemKeys,
                  pending >>

\* onOpenChange={setIsOpen}
OnOpenChange ==
  /\ Ready
  /\ \E open \in BOOLEAN :
       /\ isOpen' = open
       /\ last' = Event("open", "-", <<>>, 0)
  /\ UNCHANGED << inputValue, selectionIndex, prevValue, tokenText, itemKey,
                  itemKeys, focusedKey, pending >>

\* The row takes focus (shiftFocusProps): the list's focused key is the slot.
Focus ==
  /\ Ready
  /\ ~Focused
  /\ focusedKey' = itemKey
  /\ last' = Event("focus", "-", <<>>, 0)
  /\ UNCHANGED << inputValue, selectionIndex, isOpen, prevValue, tokenText,
                  itemKey, itemKeys, pending >>

\* ------------------------------------------------------------ render

\* Render recording the new value and leaving the input's text.
RenderKeepsText(newTokenText) ==
  IF Trim(newTokenText) # prevValue
  THEN /\ prevValue' = Trim(newTokenText)
       /\ UNCHANGED inputValue
  ELSE UNCHANGED << prevValue, inputValue >>

\* Render resetting the input's text whether or not the token changed.
RenderAlways(newTokenText) ==
  /\ prevValue' = Trim(newTokenText)
  /\ inputValue' = Trim(newTokenText)

\* The render after the token changed: "When token value changes, reset the
\* input value".
Render(newTokenText) ==
  IF Trim(newTokenText) # prevValue
  THEN /\ prevValue' = Trim(newTokenText)
       /\ inputValue' = Trim(newTokenText)
  ELSE UNCHANGED << prevValue, inputValue >>

\* The committed streams of universe U that still hold the slot, each with
\* the keys focus can be on.
NextStreams(U) ==
  { sf \in U.streams \X (UNION {KeySet(k) : k \in U.streams} \cup {NoKey}) :
       /\ itemKey \in KeySet(sf[1])
       /\ sf[2] \in KeySet(sf[1]) \cup {NoKey} }

\* The component is given a new token, stream and focus, and renders.
NewProps(U) ==
  \E newText \in U.slotTexts :
  \E sf \in NextStreams(U) :
    /\ tokenText' = newText
    /\ itemKeys' = sf[1]
    /\ focusedKey' = sf[2]
    /\ Render(newText)

\* The dispatcher applies the pending commits: the stream is parsed anew,
\* the slot gets its new token and the focus moves; the component renders.
\* The event records whose commit was applied.
DispatcherApply(U) ==
  /\ pending # <<>>
  /\ NewProps(U)
  /\ pending' = <<>>
  /\ last' = Event("apply", IF last.op = "input" THEN last.cls ELSE last.op, <<>>, 0)
  /\ UNCHANGED << selectionIndex, isOpen, itemKey >>

\* An edit made elsewhere changes the stream: the component renders with the
\* new props.  The event records the text as it was, and in ok whether the
\* keys of the stream stayed as they were.
ExternalCommit(U) ==
  /\ Ready
  /\ NewProps(U)
  /\ last' = [Event("external", IF isOpen THEN "open" ELSE "closed", inputValue, 0)
               EXCEPT !.ok = (itemKeys' = itemKeys)]
  /\ UNCHANGED << selectionIndex, isOpen, itemKey, pending >>

\* ------------------------------------------------------ specification

\* The component mounts on a token of universe U: useState(trimmedTokenValue),
\* useState(0), useState(false), useState(inputValue).
InitIn(U) ==
  /\ tokenText \in U.slotTexts
  /\ inputValue = Trim(tokenText)
  /\ prevValue = inputValue
  /\ selectionIndex = 0
  /\ isOpen = FALSE
  /\ itemKeys \in U.streams
  /\ itemKey \in {k \in KeySet(itemKeys) : k.type = FREE_TEXT}
  /\ focusedKey \in KeySet(itemKeys) \cup {NoKey}
  /\ pending = <<>>
  /\ last = Event("mount", "-", <<>>, 0)

NextIn(U) ==
  \/ OnInputChange(U)
  \/ OnOptionSelected
  \/ OnCustomValueBlurred
  \/ OnCustomValueCommitted
  \/ OnExit
  \/ OnPaste(U)
  \/ OnClick
  \/ OnKeyDown
  \/ OnOpenChange
  \/ Focus
  \/ DispatcherApply(U)
  \/ ExternalCommit(U)

\* The session: short texts in the slot before a filter, one word to paste.
Session ==
  [maxLen |-> MaxLen, chars |-> Chars,
   clips |-> {<<"a">>},
   slotTexts |-> TextsOver(SlotChars, MaxSlotLen),
   streams |-> {KeysOf(<<FREE_TEXT, FILTER>>)}]

Init == InitIn(Session)
Next == NextIn(Session)
Spec == Init /\ [][Next]_vars

\* Typing: longer texts of few characters in a stream of the slot alone,
\* whose committed text stays empty.
Typing ==
  [maxLen |-> TypingMaxLen, chars |-> Chars,
   clips |-> {<<>>},
   slotTexts |-> {<<>>},
   streams |-> {KeysOf(<<FREE_TEXT>>)}]

\* The user types and clicks in the slot.
InitTyping == InitIn(Typing)
NextTyping ==
  \/ OnInputChange(Typing)
  \/ OnClick
  \/ Focus
  \/ DispatcherApply(Typing)
SpecTyping == InitTyping /\ [][NextTyping]_vars

\* Pasting: every clipboard payload, into short texts.
PasteChars == {"a", " "}

Pasting ==
  [maxLen |-> PasteMaxLen, chars |-> PasteChars,
   clips |-> TextsOver(ClipChars, PasteMaxClipLen),
   slotTexts |-> TextsOver(SlotChars, MaxSlotLen),
   streams |-> {KeysOf(<<FREE_TEXT>>)}]

\* The user types, clicks and pastes in the slot.
InitPaste == InitIn(Pasting)
NextPaste ==
  \/ OnInputChange(Pasting)
  \/ OnPaste(Pasting)
  \/ OnClick
  \/ Focus
  \/ DispatcherApply(Pasting)
SpecPaste == InitPaste /\ [][NextPaste]_vars

\* Focus: every stream of few structured tokens, every slot of it.
FocusChars == {"a", ":", ")"}

Focusing ==
  [maxLen |-> FocusMaxLen, chars |-> FocusChars,
   clips |-> {<<>>},
   slotTexts |-> {<<>>},
   streams |-> StreamsUpTo(FocusMaxStruct)]

\* The user types and picks candidates in the slots of the stream.
InitFocus == InitIn(Focusing)
NextFocus ==
  \/ OnInputChange(Focusing)
  \/ OnOptionSelected
  \/ Focus
  \/ DispatcherApply(Focusing)
SpecFocus == InitFocus /\ [][NextFocus]_vars

\* Leaving: the slot's token is empty, a space, a word, a word after a
\* space or a quoted word, whose value is the word without the quotes; the
\* user types words and quotes.
LeaveChars == {"a", Quote}
QuotedWord == <<Quote, "a", Quote>>
LeaveSlotTexts == {<<>>, <<" ">>, <<"a">>, <<" ", "a">>, QuotedWord}

Leaving ==
  [maxLen |-> LeaveMaxLen, chars |-> LeaveChars,
   clips |-> {<<>>},
   slotTexts |-> LeaveSlotTexts,
   streams |-> {KeysOf(<<FREE_TEXT>>)}]

\* The user types in the slot and leaves it: by blur, by submitting, by the
\* exit key.
InitLeave == InitIn(Leaving)
NextLeave ==
  \/ OnInputChange(Leaving)
  \/ OnCustomValueBlurred
  \/ OnCustomValueCommitted
  \/ OnExit
  \/ Focus
  \/ DispatcherApply(Leaving)
SpecLeave == InitLeave /\ [][NextLeave]_vars

\* Elsewhere: short texts in a slot of a stream that other edits change; the
\* slot's committed text is empty, a space or a word, and the stream is the
\* slot alone, two slots around a filter, or three around a paren and a
\* filter.
ElsewhereChars == {"a", " "}
ElsewhereSlotTexts == {<<>>, <<" ">>, <<"a">>}
ElsewhereStreams ==
  {KeysOf(Interleave(st)) : st \in {<<>>, <<FILTER>>, <<L_PAREN, FILTER>>}}

Elsewhere ==
  [maxLen |-> ElsewhereMaxLen, chars |-> ElsewhereChars,
   clips |-> {<<>>},
   slotTexts |-> ElsewhereSlotTexts,
   streams |-> ElsewhereStreams]

\* The user types free text in the slot (no character of it forms a filter
\* or a paren, so the slot commits nothing), opens the list and moves
\* between the tokens while the stream is edited elsewhere.
InitElsewhere == InitIn(Elsewhere)
NextElsewhere ==
  \/ OnInputChange(Elsewhere)
  \/ OnKeyDown
  \/ OnOpenChange
  \/ Focus
  \/ ExternalCommit(Elsewhere)
SpecElsewhere == InitElsewhere /\ [][NextElsewhere]_vars

\* -------------------------------------------------- suggestion list

\* keys[key] of a key the catalog does not hold.
Undefined == <<"undefined">>

\* The TypeError a property access on undefined throws.
TypeError == [fault |-> "TypeError"]

\* getKeyLabel(tag, fieldDefinition)
getKeyLabel(tag, fieldDefinition) ==
  IF fieldDefinition.kind = "function"
  THEN IF fieldDefinition.hasParameters /\ Len(fieldDefinition.parameters) > 0
       THEN tag \o <<"(", ".", ".", ".", ")">>
       ELSE tag \o <<"(", ")">>
  ELSE tag

\* createItem(tag, fieldDefinition): tag.key of an undefined tag throws.
createItem(tag, fieldDefinition) ==
  IF tag = Undefined THEN TypeError
  ELSE [key |-> tag, label |-> getKeyLabel(tag, fieldDefinition), value |-> tag]

\* keys[key]: the tag of the catalog, undefined when it holds none.
Lookup(keys, key) ==
  IF \E i \in 1..Len(keys) : keys[i] = key THEN key ELSE Undefined

\* createSection(section, keys, getFieldDefinition): a throw in the map
\* over the children leaves the function.
createSection(section, keys) ==
  LET options == [i \in 1..Len(section.children) |->
                    createItem(Lookup(keys, section.children[i]),
                               getFieldDefinition(section.children[i]))]
  IN  IF \E i \in 1..Len(options) : options[i] = TypeError
      THEN TypeError
      ELSE [key |-> section.value, value |-> section.value,
            title |-> section.label, options |-> options]

\* flatItems: Object.values(filterKeys).map(createItem)
flatItems(keys) ==
  [i \in 1..Len(keys) |-> createItem(keys[i], getFieldDefinition(keys[i]))]

\* Whether word occurs in text.
Occurs(word, text) ==
  \E i \in 0..(Len(text) - Len(word)) : SubSeq(text, i + 1, i + Len(word)) = word

\* search.search(filterValue).map(({item}) => item): the items whose label
\* has the word, in catalog order.
FuzzySearch(items, word) == SelectSeq(items, LAMBDA item : Occurs(word, item.label))

\* How a call ends: it returns a value or it throws.
Returned(value) == [threw |-> FALSE, value |-> value]
Thrown(error) == [threw |-> TRUE, value |-> error]

\* useSortItems({filterValue}) over the catalog keys, the sections
\* filterKeySections and the fuzzy search, which is null until it is loaded.
useSortItems(keys, filterKeySections, word, search) ==
  IF word = <<>> \/ search = "null"
  THEN IF Len(filterKeySections) = 0
       THEN Returned(flatItems(keys))
       ELSE LET sections == [i \in 1..Len(filterKeySections) |->
                               createSection(filterKeySections[i], keys)]
            IN  IF \E i \in 1..Len(sections) : sections[i] = TypeError
                THEN Thrown(TypeError)
                ELSE Returned(sections)
  ELSE Returned(FuzzySearch(flatItems(keys), word))

\* ---------------------------------------------------- core functions

\* The sequences without repetition over a set, up to a length.
Distinct(S, n) ==
  {q \in TextsOver(S, n) : \A i, j \in 1..Len(q) : i # j => q[i] # q[j]}

\* The characters of the texts given to the word functions.
CoreChars == {"a", "b", " "}

\* The text of the example in the comment of replaceFocusedWordWithFilter.
BeforeBrowAfter ==
  <<"b", "e", "f", "o", "r", "e", " ", "b", "r", "o", "w", " ",
    "a", "f", "t", "e", "r">>

\* The texts and cursors given to the word functions: every short text with
\* every cursor up to two past its end, and the example.
CoreTexts == TextsOver(CoreChars, CoreMaxLen) \cup {BeforeBrowAfter}
CoreCursors(text) == 0..(Len(text) + 2)

\* The keys given to the word functions.
CoreKeys == {<<"a">>, <<"a", "a">>, BrowserName}

\* The field definitions given to the synthesizer: null, and every kind and
\* value type with every short list of parameters.
ValueTypes ==
  {"string", "integer", "number", "duration", "percentage", "boolean", "date"}

CoreParameters ==
  TextsOver({[name |-> <<"p">>, defaultValue |-> d] :
               d \in {NoDefault, <<"1">>, <<"2">>}}, CoreMaxParams)

CoreDefinitions ==
  {NullDefinition}
  \cup {[kind |-> k, valueType |-> v, hasParameters |-> FALSE, parameters |-> <<>>] :
          k \in {"field", "function"}, v \in ValueTypes}
  \cup {[kind |-> k, valueType |-> v, hasParameters |-> TRUE, parameters |-> ps] :
          k \in {"field", "function"}, v \in ValueTypes, ps \in CoreParameters}

\* The catalogs and the sections given to the suggestion list.
RankKeys == {<<"a">>, <<"a", "a">>}
CoreCatalogs == Distinct(RankKeys, Cardinality(RankKeys))
CoreSections ==
  {[i \in 1..Len(cs) |-> [value |-> i, label |-> i, children |-> cs[i]]] :
     cs \in TextsOver(TextsOver(RankKeys, CoreMaxChildren), CoreMaxSections)}

\* What a call of a core function was given and what it returned.
Call(op, args, result) ==
  [op |-> op, cls |-> "-", raw |-> <<>>, sel |-> 0, word |-> <<>>, ok |-> TRUE,
   args |-> args, result |-> result]

\* The component has mounted and no call has been made: a behaviour of the
\* core is one call on one input.
Mounted == last.op = "mount"

\* A call of getWordAtCursorPosition.
LocateWord ==
  /\ Mounted
  /\ \E value \in CoreTexts : \E cursorPosition \in CoreCursors(value) :
       last' = Call("locate", [value |-> value, cursorPosition |-> cursorPosition],
                    getWordAtCursorPosition(value, cursorPosition))
  /\ UNCHANGED << inputValue, selectionIndex, isOpen, prevValue, tokenText,
                  itemKey, itemKeys, focusedKey, pending >>

\* A call of replaceFocusedWordWithFilter.
ReplaceWord ==
  /\ Mounted
  /\ \E value \in CoreTexts : \E cursorPosition \in CoreCursors(value) :
     \E key \in CoreKeys :
       last' = Call("replace",
                    [value |-> value, cursorPosition |-> cursorPosition, key |-> key],
                    replaceFocusedWordWithFilter(value, cursorPosition, key))
  /\ UNCHANGED << inputValue, selectionIndex, isOpen, prevValue, tokenText,
                  itemKey, itemKeys, focusedKey, pending >>

\* A call of getInitialFilterKeyText.
SynthesizeKeyText ==
  /\ Mounted
  /\ \E key \in {<<"a">>} : \E fieldDefinition \in CoreDefinitions :
       last' = Call("keyText", [key |-> key, fieldDefinition |-> fieldDefinition],
                    getInitialFilterKeyText(key, fieldDefinition))
  /\ UNCHANGED << inputValue, selectionIndex, isOpen, prevValue, tokenText,
                  itemKey, itemKeys, focusedKey, pending >>

\* A call of getInitialFilterText.
Synthesize ==
  /\ Mounted
  /\ \E key \in {<<"a">>} : \E fieldDefinition \in CoreDefinitions :
       last' = Call("synthesize", [key |-> key, fieldDefinition |-> fieldDefinition],
                    getInitialFilterText(key, fieldDefinition))
  /\ UNCHANGED << inputValue, selectionIndex, isOpen, prevValue, tokenText,
                  itemKey, itemKeys, focusedKey, pending >>

\* A render of useSortItems.
Rank ==
  /\ Mounted
  /\ \E keys \in CoreCatalogs : \E sections \in CoreSections :
     \E word \in {<<>>, <<"a">>} : \E search \in {"ready", "null"} :
       last' = Call("rank",
                    [keys |-> keys, sections |-> sections, word |-> word,
                     search |-> search],
                    useSortItems(keys, sections, word, search))
  /\ UNCHANGED << inputValue, selectionIndex, isOpen, prevValue, tokenText,
                  itemKey, itemKeys, focusedKey, pending >>

\* The render after a render of useSortItems, with the same catalog,
\* sections, word and search.
RankAgain ==
  /\ last.op \in {"rank", "rerank"}
  /\ last' = Call("rerank", last.args,
                  useSortItems(last.args.keys, last.args.sections,
                               last.args.word, last.args.search))
  /\ UNCHANGED << inputValue, selectionIndex, isOpen, prevValue, tokenText,
                  itemKey, itemKeys, focusedKey, pending >>

\* The core functions, called on every input.
InitCore == InitIn(Typing)
NextCore ==
  \/ LocateWord
  \/ ReplaceWord
  \/ SynthesizeKeyText
  \/ Synthesize
  \/ Rank
  \/ RankAgain
SpecCore == InitCore /\ [][NextCore]_vars

\* ------------------------------------------------------------ claims

\* A keystroke that onInputChange took for a filter or a paren.
Structural(e) == e.op = "input" /\ e.cls \in {"FORMS_FILTER", "FORMS_PAREN"}

\* C1: classify before mutating local state.  A keystroke classified
\* FORMS_FILTER or FORMS_PAREN stores neither the raw text in inputValue nor
\* the raw cursor in selectionIndex, and inputValue only ever changes to the
\* slot's trimmed committed text or to a text classified FREE_TEXT as typed.
C1_ClassifyBeforeMutate ==
  [][ /\ Structural(last') /\ Ready =>
           /\ inputValue' # last'.raw
           /\ (selectionIndex' # selectionIndex
                 => selectionIndex' # SelectionStart(last'.sel))
      /\ inputValue' # inputValue =>
           \/ inputValue' = trimmedTokenValue'
           \/ /\ last'.op = "input" /\ last'.cls = "FREE_TEXT"
              /\ inputValue' = last'.raw
    ]_vars

\* The text half of C1, which the code keeps.
C1_TextNeverStored ==
  [][ /\ Structural(last') /\ Ready => inputValue' # last'.raw
      /\ inputValue' # inputValue =>
           \/ inputValue' = trimmedTokenValue'
           \/ /\ last'.op = "input" /\ last'.cls = "FREE_TEXT"
              /\ inputValue' = last'.raw
    ]_vars

\* Some span of the parse of text is a paren.
AnyParen(text) ==
  LET spans == Tokenize(text, <<>>)
  IN  \E i \in 1..Len(spans) : spans[i].type \in {L_PAREN, R_PAREN}

\* Some span of the parse of text is a filter on key.
AnyFilterOn(text, key) ==
  LET spans == Tokenize(text, <<>>)
  IN  \E i \in 1..Len(spans) :
        /\ spans[i].type = FILTER
        /\ spans[i].key = key

\* C2: the classification of a keystroke is FORMS_PAREN when the parse of
\* the raw text and a quote has a paren span (whatever else it has), else
\* FORMS_FILTER when it has a filter span on the current word, else
\* FREE_TEXT; a paren keystroke commits with the paren focus, a filter
\* keystroke with the filter focus, a free-text keystroke commits nothing.
C2_ThreeWayPrecedence ==
  [][ last'.op = "input" /\ Ready =>
        LET parsed == Append(last'.raw, Quote)
            word == getWordAtCursorPosition(inputValue, selectionIndex)
            paren == last'.ok /\ AnyParen(parsed)
            filter == last'.ok /\ AnyFilterOn(parsed, word)
        IN  IF paren
            THEN /\ last'.cls = "FORMS_PAREN"
                 /\ Len(pending') = 1
                 /\ pending'[1].focusOverride.part = "none"
                 /\ pending'[1].focusOverride.itemKey.type = FREE_TEXT
            ELSE IF filter
            THEN /\ last'.cls = "FORMS_FILTER"
                 /\ Len(pending') = 1
                 /\ pending'[1].focusOverride.part = "value"
                 /\ pending'[1].focusOverride.itemKey.type = FILTER
            ELSE /\ last'.cls = "FREE_TEXT"
                 /\ pending' = <<>>
    ]_vars

\* A keystroke whose parse has both a paren and a filter on the current
\* word was taken for a paren.
C2_Witness ==
  /\ last.op = "input" /\ last.ok
  /\ AnyParen(Append(last.raw, Quote))
  /\ AnyFilterOn(Append(last.raw, Quote), last.word)
  /\ last.cls = "FORMS_PAREN"
  /\ Len(pending) = 1

\* The one commit an UPDATE_FREE_TEXT of text without focusOverride leaves.
PlainCommit(text) ==
  << [type |-> "UPDATE_FREE_TEXT", text |-> text, focusOverride |-> NoFocus] >>

\* C3: a keystroke classified FORMS_FILTER or FORMS_PAREN issues exactly one
\* UPDATE_FREE_TEXT commit within its handler and leaves inputValue on the
\* slot's committed text, never on the raw text; once the dispatcher has
\* applied that commit nothing is pending and inputValue is the slot's new
\* committed text (trimmed).
C3_StructuralCommitReturnsToIdle ==
  /\ Structural(last) =>
       /\ Len(pending) = 1
       /\ pending[1].type = "UPDATE_FREE_TEXT"
       /\ inputValue = trimmedTokenValue
       /\ inputValue # last.raw
  /\ last.op = "apply" /\ last.cls \in {"FORMS_FILTER", "FORMS_PAREN"} =>
       /\ pending = <<>>
       /\ inputValue = trimmedTokenValue
       /\ prevValue = trimmedTokenValue

\* The commit of a filter keystroke was applied and left a text in the slot.
C3_Witness ==
  /\ last.op = "apply" /\ last.cls = "FORMS_FILTER"
  /\ pending = <<>>
  /\ tokenText # <<>>
  /\ inputValue = trimmedTokenValue

\* C4: every step that changes the slot's committed text (trimmed) leaves
\* inputValue equal to the new committed text (trimmed), whatever inputValue
\* held and whether or not the list is open.
C4_ExternalChangeResets ==
  [][ trimmedTokenValue' # trimmedTokenValue =>
        /\ inputValue' = trimmedTokenValue'
        /\ prevValue' = trimmedTokenValue'
        /\ isOpen' = isOpen
    ]_vars

\* An edit made elsewhere replaced a text longer than any committed text,
\* with the list open.
C4_Witness ==
  /\ last.op = "external" /\ last.cls = "open"
  /\ Len(last.raw) > MaxSlotLen
  /\ inputValue # last.raw
  /\ inputValue = trimmedTokenValue
  /\ inputValue # <<>>

Min(a, b) == IF a <= b THEN a ELSE b

\* C5: an edit made elsewhere that changes the slot's committed text leaves
\* selectionIndex at the cursor it was, clamped to the length of the new
\* text: 0 <= selectionIndex <= Len(inputValue) afterwards.
C5_CursorClamped ==
  [][ last'.op = "external" /\ trimmedTokenValue' # trimmedTokenValue =>
        /\ selectionIndex' = Min(selectionIndex, Len(inputValue'))
        /\ 0 <= selectionIndex'
        /\ selectionIndex' <= Len(inputValue')
    ]_vars

\* C6: a keystroke classified FREE_TEXT sets inputValue to the raw text and
\* selectionIndex to the raw cursor (0 when the input reports none), issues
\* no commit and leaves the token, the stream and the focused key as they
\* were.
C6_FreeTextKeystroke ==
  [][ last'.op = "input" /\ last'.cls = "FREE_TEXT" /\ Ready =>
        /\ inputValue' = last'.raw
        /\ selectionIndex' = (IF last'.sel = NoSelection THEN 0 ELSE last'.sel)
        /\ pending' = <<>>
        /\ UNCHANGED << tokenText, itemKey, itemKeys, focusedKey >>
    ]_vars

\* A free-text keystroke whose input reported no cursor left a text that
\* differs from the committed one, and the cursor at 0.
C6_Witness ==
  /\ last.op = "input" /\ last.cls = "FREE_TEXT"
  /\ last.sel = NoSelection
  /\ inputValue = last.raw
  /\ inputValue # trimmedTokenValue
  /\ selectionIndex = 0
  /\ pending = <<>>

\* C7 as stated: on blur, submission or exit, a text equal to the slot's
\* committed text issues no commit, and a text that differs issues exactly
\* one commit of the text as it is, without focus override.
C7_NoCommitWhenUnchanged ==
  last.op \in {"blur", "submit", "exit"} =>
    IF last.raw = trimmedTokenValue
    THEN pending = <<>>
    ELSE pending = PlainCommit(last.raw) /\ inputValue = trimmedTokenValue

\* C7 as the code has it: an exit with a text equal to the value of the
\* slot's token (token.value trimmed: for a quoted token what is between
\* the quotes, not the committed text) issues no commit and changes nothing;
\* a blur or a submission, whatever the text, and an exit with a text that
\* differs from that value, issue exactly one UPDATE_FREE_TEXT commit of the
\* text as it is, without focus override, and put inputValue back on the
\* committed text; once that commit is applied inputValue is the slot's
\* committed text.
C7_CommitOnLeave ==
  /\ last.op = "exit" /\ last.raw = Trim(tokenValue) =>
       pending = <<>> /\ inputValue = last.raw
  /\ \/ last.op \in {"blur", "submit"}
     \/ last.op = "exit" /\ last.raw # Trim(tokenValue)
     => pending = PlainCommit(last.raw) /\ inputValue = trimmedTokenValue
  /\ last.op = "apply" /\ last.cls \in {"blur", "submit", "exit"} =>
       pending = <<>> /\ inputValue = trimmedTokenValue

\* An exit from a quoted token whose text was not edited issued a commit of
\* that text: the text is the committed one and is not the token's value.
C7_Witness ==
  /\ last.op = "exit"
  /\ last.raw = trimmedTokenValue
  /\ last.raw # Trim(tokenValue)
  /\ Trim(tokenValue) = <<"a">>
  /\ pending = PlainCommit(last.raw)

\* C8: the text a paste commits has no newline and neither starts nor ends
\* with whitespace, whatever the clipboard payload.
C8_PasteSanitized ==
  last.op = "paste" =>
    LET text == pending[1].text
    IN  /\ \A i \in 1..Len(text) : text[i] # "\n"
        /\ text # <<>> => Head(text) \notin Whitespace
        /\ text # <<>> => text[Len(text)] \notin Whitespace

\* C9: a paste issues exactly one REPLACE_TOKENS_WITH_TEXT commit, without
\* focus override, whose text is the clipboard payload less its first
\* newline, trimmed, whatever inputValue and selectionIndex were; inputValue
\* is put back on the slot's committed text, as it is once the commit is
\* applied.
C9_PasteReplacesWhole ==
  /\ last.op = "paste" =>
       /\ pending = << [type |-> "REPLACE_TOKENS_WITH_TEXT",
                        text |-> Trim(RemoveFirst(last.raw, "\n")),
                        focusOverride |-> NoFocus] >>
       /\ inputValue = trimmedTokenValue
  /\ last.op = "apply" /\ last.cls = "paste" =>
       pending = <<>> /\ inputValue = trimmedTokenValue

\* A payload was pasted over a typed text that differed from the committed
\* one and from the payload.
C9_Witness ==
  /\ last.op = "paste"
  /\ last.word # <<>>
  /\ last.word # trimmedTokenValue
  /\ Len(pending) = 1
  /\ pending[1].text # <<>>
  /\ pending[1].text # last.word
  /\ pending[1].text # last.raw
  /\ inputValue = trimmedTokenValue

\* The filters of the stream before the slot.
FiltersBeforeSlot ==
  Cardinality({i \in 1..Len(itemKeys) :
                 /\ itemKeys[i].type = FILTER
                 /\ \E j \in (i + 1)..Len(itemKeys) : itemKeys[j] = itemKey})

\* The slot's handler has just issued a commit that creates a filter.
FilterCommitted ==
  \/ last.op = "select"
  \/ last.op = "input" /\ last.cls = "FORMS_FILTER"

\* C10: the commit of a filter keystroke or of a selected candidate has the
\* focus override on the "value" part of the filter whose 0-based ordinal is
\* the number of filters before the slot in the committed stream.
C10_FilterFocusOrdinal ==
  FilterCommitted =>
    /\ Len(pending) = 1
    /\ pending[1].focusOverride =
         [itemKey |-> [type |-> FILTER, index |-> FiltersBeforeSlot],
          part |-> "value"]

\* A filter keystroke in a slot after two filters and a paren.
C10_Witness ==
  /\ last.op = "input" /\ last.cls = "FORMS_FILTER"
  /\ \E i \in 1..Len(itemKeys) :
        /\ itemKeys[i].type = L_PAREN
        /\ \E j \in (i + 1)..Len(itemKeys) : itemKeys[j] = itemKey
  /\ Len(pending) = 1
  /\ pending[1].focusOverride = [itemKey |-> [type |-> FILTER, index |-> 2],
                                 part |-> "value"]

\* The free-text slots of the stream before the slot.
FreeTextBeforeSlot ==
  Cardinality({i \in 1..Len(itemKeys) :
                 /\ itemKeys[i].type = FREE_TEXT
                 /\ \E j \in (i + 1)..Len(itemKeys) : itemKeys[j] = itemKey})

\* C11: the commit of a paren keystroke in the free-text slot of ordinal k
\* has the focus override on the free-text slot of ordinal k + 1, with no
\* part, whatever the stream around the slot.
C11_ParenFocusNextSlot ==
  last.op = "input" /\ last.cls = "FORMS_PAREN" =>
    /\ Len(pending) = 1
    /\ pending[1].text = last.raw
    /\ pending[1].focusOverride =
         [itemKey |-> [type |-> FREE_TEXT, index |-> FreeTextBeforeSlot + 1],
          part |-> "none"]

\* A paren typed in the second free-text slot of a stream with a slot after
\* it: the override is on the third.
C11_Witness ==
  /\ last.op = "input" /\ last.cls = "FORMS_PAREN"
  /\ itemKey = [type |-> FREE_TEXT, index |-> 1]
  /\ Len(itemKeys) > 3
  /\ Len(pending) = 1
  /\ pending[1].focusOverride =
       [itemKey |-> [type |-> FREE_TEXT, index |-> 2], part |-> "none"]

\* The pieces of a text between its spaces.
Pieces(text) == Split(text, " ")

\* Where the i-th piece of a text ends, counting one more for the space
\* after each piece.
RECURSIVE Boundary(_, _)
Boundary(pieces, i) ==
  IF i = 0 THEN 0 ELSE Boundary(pieces, i - 1) + Len(pieces[i]) + 1

\* The index of the first piece whose boundary is at or after the cursor,
\* 0 when there is none.
Located(text, cursor) ==
  IF \E i \in 1..Len(Pieces(text)) : Boundary(Pieces(text), i) >= cursor
  THEN CHOOSE i \in 1..Len(Pieces(text)) :
         /\ Boundary(Pieces(text), i) >= cursor
         /\ \A j \in 1..(i - 1) : Boundary(Pieces(text), j) < cursor
  ELSE 0

\* The words of a text: its pieces that are not empty.
Words(text) == SelectSeq(Pieces(text), LAMBDA w : w # <<>>)

\* "before browser.name: after"
BeforeBrowserNameAfter ==
  SubSeq(BeforeBrowAfter, 1, 7) \o BrowserName \o <<":", " ">>
    \o SubSeq(BeforeBrowAfter, 13, 17)

\* C12: when a word is located for (value, cursorPosition),
\* replaceFocusedWordWithFilter returns trim(trim(text before the word) +
\* " " + the filter text of the key + " " + trim(text after the word)), the
\* word being the occurrence getWordAtCursorPosition returns; the other
\* words keep their order; ("before brow after", 9, "browser.name") gives
\* "before browser.name: after".
C12_ReplaceFocusedWord ==
  last.op = "replace" /\ Located(last.args.value, last.args.cursorPosition) > 0 =>
    LET value == last.args.value
        pieces == Pieces(value)
        i == Located(value, last.args.cursorPosition)
        before == Join(SubSeq(pieces, 1, i - 1), <<" ">>)
        after == Join(SubSeq(pieces, i + 1, Len(pieces)), <<" ">>)
        filter == getInitialFilterText(last.args.key,
                                       getFieldDefinition(last.args.key))
    IN  /\ pieces[i] = getWordAtCursorPosition(value, last.args.cursorPosition)
        /\ last.result =
             Trim(Trim(before) \o <<" ">> \o filter \o <<" ">> \o Trim(after))
        /\ Words(last.result) = Words(before) \o <<filter>> \o Words(after)
        /\ value = BeforeBrowAfter /\ last.args.cursorPosition = 9
             /\ last.args.key = BrowserName
           => last.result = BeforeBrowserNameAfter

\* The example was called.
C12_Witness ==
  /\ last.op = "replace"
  /\ last.args = [value |-> BeforeBrowAfter, cursorPosition |-> 9,
                  key |-> BrowserName]
  /\ last.result = BeforeBrowserNameAfter

\* C13: for a cursor from 0 to the length of the text,
\* getWordAtCursorPosition returns a piece of the text split on spaces, the
\* first whose boundary (lengths plus one, accumulated) is at or after the
\* cursor: a contiguous part of the text without a space; the empty text
\* gives the empty word.
C13_LocatedWordIsPiece ==
  last.op = "locate" /\ last.args.cursorPosition <= Len(last.args.value) =>
    LET value == last.args.value
        i == Located(value, last.args.cursorPosition)
    IN  /\ i > 0
        /\ last.result = Pieces(value)[i]
        /\ \A k \in 1..Len(last.result) : last.result[k] # " "
        /\ Occurs(last.result, value)
        /\ value = <<>> => last.result = <<>>

\* The second word of a text was located.
C13_Witness ==
  /\ last.op = "locate"
  /\ last.args = [value |-> <<"a", " ", "b">>, cursorPosition |-> 3]
  /\ last.result = <<"b">>

\* An occurrence of word in value from offset s, between spaces or the ends
\* of the text.
WordAt(value, word, s) ==
  /\ s + Len(word) <= Len(value)
  /\ SubSeq(value, s + 1, s + Len(word)) = word
  /\ s = 0 \/ value[s] = " "
  /\ s + Len(word) = Len(value) \/ value[s + Len(word) + 1] = " "

\* C14: for a cursor from 0 to the length of the text, the word
\* getWordAtCursorPosition returns is under the cursor: some occurrence of
\* it between spaces runs from s to e with s <= cursor <= e.
C14_WordUnderCursor ==
  last.op = "locate" /\ last.args.cursorPosition <= Len(last.args.value) =>
    \E s \in 0..Len(last.args.value) :
       /\ WordAt(last.args.value, last.result, s)
       /\ s <= last.args.cursorPosition
       /\ last.args.cursorPosition <= s + Len(last.result)

\* C18: with the cursor past the length of the text,
\* getWordAtCursorPosition returns the whole text and
\* replaceFocusedWordWithFilter returns the text as it is.
C18_CursorBeyondText ==
  /\ last.op \in {"locate", "replace"} =>
       (last.args.cursorPosition > Len(last.args.value)
          => last.result = last.args.value)

\* The value types whose filter compares.
Comparing == {"integer", "number", "duration", "percentage"}

\* C15: getInitialFilterText returns the key text, ":>" and the default
\* value when the definition's value type is integer, number, duration or
\* percentage, and the key text, ":" and the default value for every other
\* value type; a null definition gives the key, ":" and the default value.
C15_SynthesizedFilterText ==
  last.op = "synthesize" =>
    LET key == last.args.key
        definition == last.args.fieldDefinition
        keyText == getInitialFilterKeyText(key, definition)
        default == getDefaultFilterValue(key, definition)
        rest == SubSeq(last.result, Len(keyText) + 1, Len(last.result))
    IN  /\ SubSeq(last.result, 1, Len(keyText)) = keyText
        /\ definition.valueType \in Comparing => rest = <<":", ">">> \o default
        /\ definition.valueType \notin Comparing => rest = <<":">> \o default
        /\ definition = NullDefinition => last.result = key \o <<":">> \o default

\* A field of value type number gave "a:>1".
C15_Witness ==
  /\ last.op = "synthesize"
  /\ last.args.fieldDefinition.kind = "field"
  /\ last.args.fieldDefinition.valueType = "number"
  /\ last.result = <<"a", ":", ">", "1">>

\* The default values of the parameters that declare one, in order.
Declared(parameters) ==
  LET with == SelectSeq(parameters, LAMBDA param : param.defaultValue # NoDefault)
  IN  [i \in 1..Len(with) |-> with[i].defaultValue]

\* Texts with a comma between each two.
RECURSIVE CommaJoined(_)
CommaJoined(texts) ==
  IF Len(texts) = 0 THEN <<>>
  ELSE IF Len(texts) = 1 THEN texts[1]
  ELSE CommaJoined(SubSeq(texts, 1, Len(texts) - 1)) \o <<",">> \o texts[Len(texts)]

\* C16: for a definition of kind function getInitialFilterKeyText returns
\* the key, "(", the default values of the parameters that declare one, in
\* order with "," between them, and ")"; the key and "()" when the function
\* has no parameters; the key alone for any other definition.
C16_FunctionKeyText ==
  last.op = "keyText" =>
    LET key == last.args.key
        definition == last.args.fieldDefinition
    IN  /\ definition.kind = "function" /\ definition.hasParameters =>
             last.result = key \o <<"(">> \o CommaJoined(Declared(definition.parameters))
                               \o <<")">>
        /\ definition.kind = "function" /\ ~definition.hasParameters =>
             last.result = key \o <<"(", ")">>
        /\ definition.kind # "function" => last.result = key

\* A function whose first parameter declares "1" and whose second declares
\* nothing gave "a(1)".
C16_Witness ==
  /\ last.op = "keyText"
  /\ last.args.fieldDefinition.kind = "function"
  /\ last.args.fieldDefinition.parameters =
       << [name |-> <<"p">>, defaultValue |-> <<"1">>],
          [name |-> <<"p">>, defaultValue |-> NoDefault] >>
  /\ last.result = <<"a", "(", "1", ")">>

\* C17: a keystroke on which the parser returns no result is handled as
\* FREE_TEXT: inputValue and selectionIndex take the raw text and cursor, no
\* commit is issued, and the slot stays focused with nothing pending, as the
\* next keystroke needs.
C17_ParseFailureIsFreeText ==
  [][ last'.op = "input" /\ ~last'.ok /\ Ready =>
        /\ last'.cls = "FREE_TEXT"
        /\ inputValue' = last'.raw
        /\ selectionIndex' = SelectionStart(last'.sel)
        /\ pending' = <<>>
        /\ focusedKey' = itemKey'
        /\ UNCHANGED << tokenText, itemKeys >>
    ]_vars

\* The parser gave up on a text with a paren and a filter on the current
\* word, which the input now holds.
C17_Witness ==
  /\ last.op = "input" /\ ~last.ok
  /\ AnyParen(last.raw)
  /\ AnyFilterOn(Append(last.raw, Quote), last.word)
  /\ inputValue = last.raw
  /\ pending = <<>>
  /\ focusedKey = itemKey

\* C19: no call of the core throws; in particular useSortItems returns for
\* every catalog and every sections, also those that list a key the catalog
\* does not hold.
C19_NothingThrows ==
  last.op = "rank" => ~last.result.threw

\* C20: with an empty filter word useSortItems returns, when sections are
\* configured, one section for each, in their order, each with its keys in
\* their order; with no sections, the items of all the catalog's keys in
\* catalog order; and a render repeated on the same catalog, sections and
\* word returns what the render before it returned.
C20_EmptyWordRanking ==
  [][ /\ last'.op = "rank" /\ last'.args.word = <<>> =>
           LET keys == last'.args.keys
               sections == last'.args.sections
               items == last'.result.value
           IN  /\ ~last'.result.threw
               /\ Len(sections) = 0 =>
                    /\ Len(items) = Len(keys)
                    /\ \A i \in 1..Len(keys) : items[i].value = keys[i]
               /\ Len(sections) > 0 =>
                    /\ Len(items) = Len(sections)
                    /\ \A i \in 1..Len(sections) :
                         /\ items[i].value = sections[i].value
                         /\ Len(items[i].options) = Len(sections[i].children)
                         /\ \A j \in 1..Len(sections[i].children) :
                              items[i].options[j].value = sections[i].children[j]
      /\ last'.op = "rerank" =>
           /\ last'.args = last.args
           /\ last'.result = last.result
    ]_vars

\* C21: the commit of a keystroke classified FORMS_FILTER carries
\* replaceFocusedWordWithFilter of the text and cursor the input held before
\* the keystroke and of the word located in them, with the filter focus; the
\* commit of a keystroke classified FORMS_PAREN carries the raw text as it
\* is, with the paren focus; the word compared with the parsed filter keys
\* is the word located in the text and cursor held before the keystroke.
C21_StructuralCommitText ==
  [][ last'.op = "input" /\ Ready =>
        LET word == getWordAtCursorPosition(inputValue, selectionIndex)
        IN  /\ last'.word = word
            /\ last'.cls = "FORMS_FILTER" =>
                 /\ Len(pending') = 1
                 /\ pending'[1].type = "UPDATE_FREE_TEXT"
                 /\ pending'[1].text =
                      replaceFocusedWordWithFilter(inputValue, selectionIndex, word)
                 /\ pending'[1].focusOverride.part = "value"
                 /\ pending'[1].focusOverride.itemKey.type = FILTER
                 /\ AnyFilterOn(Append(last'.raw, Quote), word)
            /\ last'.cls = "FORMS_PAREN" =>
                 /\ Len(pending') = 1
                 /\ pending'[1].type = "UPDATE_FREE_TEXT"
                 /\ pending'[1].text = last'.raw
                 /\ pending'[1].focusOverride.part = "none"
                 /\ pending'[1].focusOverride.itemKey.type = FREE_TEXT
    ]_vars

\* A ":" typed at the end of "a a" while the cursor the component holds is
\* in the first word: the filter is compared with and replaces the first
\* word, and the commit is not the raw text.
C21_Witness ==
  /\ last.op = "input" /\ last.cls = "FORMS_FILTER"
  /\ last.raw = <<"a", " ", "a", ":">>
  /\ last.word = <<"a">>
  /\ Len(pending) = 1
  /\ pending[1].text = <<"a", ":", " ", "a">>
  /\ pending[1].focusOverride.part = "value"

\* The key of the filter a commit creates: the selected candidate, or the
\* word the keystroke's filter was compared with.
CommittedKey == IF last.op = "select" THEN last.raw ELSE last.word

\* C22: a commit that carries the filter focus override, from a keystroke
\* classified FORMS_FILTER or from a selected candidate, has a text in which
\* the synthesized filter text of the chosen key occurs, also after an edit
\* made elsewhere has shortened the slot's text under the cursor held.
C22_FilterCommitHasFilter ==
  FilterCommitted =>
    /\ Len(pending) = 1
    /\ pending[1].focusOverride.part = "value"
    /\ Occurs(getInitialFilterText(CommittedKey, getFieldDefinition(CommittedKey)),
              pending[1].text)

\* C23: an edit made elsewhere that leaves the slot's trimmed committed text
\* as it was leaves the input's text, the cursor held and the open flag of
\* the suggestion list as they were, whatever it does to the stream.
C23_ExternalCommitKeepsTyping ==
  [][ last'.op = "external" /\ trimmedTokenValue' = trimmedTokenValue =>
        UNCHANGED << inputValue, selectionIndex, isOpen >>
    ]_vars

\* An edit elsewhere changed the keys of the stream while the list was open
\* and the input held a text that is not the committed one: the text and
\* the cursor are still there.
C23_Witness ==
  /\ last.op = "external" /\ ~last.ok /\ last.cls = "open"
  /\ isOpen
  /\ inputValue = last.raw
  /\ inputValue # trimmedTokenValue
  /\ prevValue = trimmedTokenValue
  /\ selectionIndex = Len(inputValue)
  /\ selectionIndex > 0

\* The place of the slot in the stream, from 1.
SlotPlace == CHOOSE i \in 1..Len(itemKeys) : itemKeys[i] = itemKey

\* C24: Backspace with an empty selection at offset 0 moves the list's focus
\* to the token just before the slot when there is one, Delete with an empty
\* selection at the end of the text moves it to the token just after the
\* slot when there is one, and otherwise the focus stays; the key press
\* issues no commit and leaves the input's text and the stream as they were.
C24_KeyDownMovesFocus ==
  [][ last'.op = "keydown" =>
        /\ pending' = pending
        /\ UNCHANGED << inputValue, tokenText, itemKeys, itemKey >>
        /\ focusedKey' =
             IF /\ last'.cls = "Backspace" /\ last'.ok /\ last'.sel = 0
                /\ SlotPlace > 1
             THEN itemKeys[SlotPlace - 1]
             ELSE IF /\ last'.cls = "Delete" /\ last'.ok
                     /\ last'.sel = Len(inputValue)
                     /\ SlotPlace < Len(itemKeys)
             THEN itemKeys[SlotPlace + 1]
             ELSE focusedKey
    ]_vars

\* Delete at the end of a text that is not empty, in a slot that has a token
\* after it: the focus is on that token, the text is still in the input.
C24_Witness ==
  /\ last.op = "keydown" /\ last.cls = "Delete" /\ last.ok
  /\ last.sel = Len(inputValue) /\ last.sel > 0
  /\ pending = <<>>
  /\ SlotPlace < Len(itemKeys)
  /\ focusedKey = itemKeys[SlotPlace + 1]
  /\ focusedKey # itemKey

=============================================================================
